---- MODULE Spec2Model ----
(***************************************************************************)
(* Multi-Paxos replicated log (multi-paxos-rs): the PaxosServer replica    *)
(* of src/src/protocol.rs over the UDP transport of src/src/udp_network.rs.*)
(* Every replica is proposer, acceptor and learner.  Datagrams may be      *)
(* lost (never received), reordered (received in any order) and            *)
(* duplicated (received without leaving the network).                      *)
(***************************************************************************)
EXTENDS Integers, Sequences, FiniteSets, Bags, TLC

(* ---------------------------- bounds ----------------------------------- *)

\* Spec: elections and re-proposal around one client command
MaxRound == 1
MaxLog == 2
MaxElections == 2
MaxRequests == 1
MaxDup == 1
MaxInFlight == 2
MaxLosses == 1

\* SpecAlone: replicas that know no peer
AloneRound == 1
AloneLog == 1
AloneElections == 3
AloneRequests == 2
AloneDup == 1
AloneInFlight == 2
AloneLosses == 1

\* SpecTwoLeaders: two commands submitted to two leaders
TwoRound == 0
TwoLog == 1
TwoElections == 2
TwoRequests == 2
TwoDup == 0
TwoInFlight == 2
TwoLosses == 2

\* SpecQuorum3: a group whose quorum is three, with duplicated datagrams
QRound == 0
QLog == 1
QElections == 1
QRequests == 1
QDup == 1
QInFlight == 3
QLosses == 2

\* SpecStale: a datagram still in flight while another replica is elected
StaleRound == 0
StaleLog == 1
StaleElections == 2
StaleRequests == 1
StaleDup == 0
StaleInFlight == 3
StaleLosses == 1

\* SpecForeign: a datagram that no replica sent reaches a replica's socket
FgnRound == 0
FgnLog == 1
FgnElections == 1
FgnRequests == 1
FgnDup == 0
FgnInFlight == 2
FgnLosses == 1
FgnDatagrams == 1

\* SpecGap: two commands to replica 1, lost datagrams, a second election
GapRound == 0
GapLog == 2
GapElections == 2
GapRequests == 2
GapInFlight == 2
GapLosses == 3
GapTargets == 1

\* SpecReport: Prepares answered by replicas that hold accepted values
ReportRound == 0
ReportLog == 2
ReportElections == 2
ReportRequests == 2
ReportInFlight == 2
ReportLosses == 4
ReportCutOff == 2

\* SpecLive: fair runs without failures
LiveRound == 0
LiveLog == 1
LiveRequests == 1
LiveInFlight == 2

\* SpecHeal: fair runs after a bounded number of losses
HealRound == 0
HealLog == 1
HealRequests == 1
HealInFlight == 2
HealLosses == 1

\* SpecBallot: the ballots (round, node id) and node ids increment_for is given
BallotRounds == 5
BallotIds == 7

(* ---------------------------- constants -------------------------------- *)

\* group_size handed to start_replicas
NumReplicas == 3
\* the smallest group_size whose quorum is 3
NumReplicasQ == 4

LEASE_DURATION == 2

Values == <<"A", "B">>
None == "None"

VARIABLES
    group_size,        \* node_count of PaxosServer::new, the same on every replica
    log,               \* log[n]: Seq of LogEntry; slot s is log[n][s+1]
    highest_promised,  \* highest_promised[n]: Ballot
    current_leader,    \* current_leader[n]: node id (0 initially)
    lease_elapsed,     \* leader_lease_start.elapsed().as_secs(), capped
    lease_phase,       \* the replicas whose lease is below LEASE_DURATION, by the
                       \* fraction of a second their lease has run, smallest first
    peers,             \* peers[n]: the ids replica n's UdpNetworkNode has discovered
    promises,          \* promises[n]: Seq of [id, accepted]
    client_cmd_queue,  \* client_cmd_queue[n]: Seq of commands
    alive,             \* FALSE once the replica's thread has panicked
    applied,           \* applied[n]: the slots handed to ReplicatedStateMachine::execute
    net,               \* the datagrams in flight, a bag: a datagram sent twice is there twice
    msgs,              \* digest of every datagram handed to the transport so far
    inbox,             \* the datagram handled by the last step, where the run keeps it
    outbox,            \* the datagrams handed to the transport by the last step
    elections,         \* number of elections started so far
    requests,          \* number of commands submitted by clients so far
    call,              \* a function applied on its own: its name and arguments
    ret,               \* <<v>> once call has returned v, <<>> before
    foreign,           \* number of datagrams received that no replica sent
    dups,              \* number of datagrams duplicated so far
    lost,              \* number of datagrams lost so far, where the run counts them
    bound              \* the bounds of the run

vars == <<group_size, peers, log, highest_promised, current_leader, lease_elapsed,
          lease_phase, promises, client_cmd_queue, alive, applied, net, msgs, inbox, outbox, elections,
          requests, dups, lost, foreign, bound, call, ret>>

\* the replicas started
Nodes == DOMAIN peers

(* ---------------------------- Ballot ----------------------------------- *)

\* derived Ord of Ballot(usize, usize): lexicographic
BallotLT(a, b) == a[1] < b[1] \/ (a[1] = b[1] /\ a[2] < b[2])
BallotLE(a, b) == a = b \/ BallotLT(a, b)

\* faulty variant: the node id is stamped only when the round is bumped
increment_for_keep_id(b, node_id) ==
    IF b[2] > node_id THEN <<b[1] + 1, node_id>> ELSE <<b[1], b[2]>>

increment_for(b, node_id) ==
    <<IF b[2] > node_id THEN b[1] + 1 ELSE b[1], node_id>>

(* ---------------------------- LogEntry --------------------------------- *)

LogEntry_new ==
    [value |-> None, acceptances |-> 0, accepted_id |-> <<0, 0>>, chosen |-> FALSE]

LogEntry_new_with_value(v) ==
    [value |-> v, acceptances |-> 1, accepted_id |-> <<0, 0>>, chosen |-> FALSE]

\* PaxosServer::new: quorum: node_count / 2 + 1
quorum == group_size \div 2 + 1

\* while instance >= self.log.len() { self.log.push(LogEntry::new()) }
Grow(lg, instance) ==
    [i \in 1..(IF instance + 1 > Len(lg) THEN instance + 1 ELSE Len(lg)) |->
        IF i <= Len(lg) THEN lg[i] ELSE LogEntry_new]

RECURSIVE AcceptedFrom(_, _)
AcceptedFrom(lg, i) ==
    IF i > Len(lg) THEN <<>>
    ELSE (IF lg[i].value # None
          THEN << <<i - 1, lg[i].accepted_id, lg[i].value>> >>
          ELSE <<>>) \o AcceptedFrom(lg, i + 1)

\* (index, accepted_id, value) of every entry that has a value, by index
get_accepted_values_iter(lg) == AcceptedFrom(lg, 1)

RECURSIVE HolesFrom(_, _)
HolesFrom(lg, i) ==
    IF i > Len(lg) THEN <<>>
    ELSE (IF lg[i].chosen = FALSE THEN <<i - 1>> ELSE <<>>) \o HolesFrom(lg, i + 1)

\* indices not chosen, then log.len() as the terminal sentinel
Holes(lg) == Append(HolesFrom(lg, 1), Len(lg))

\* faulty variant: every accepted index is taken, whatever the holes
InHolesAlways(index, holes) == TRUE

\* the scan of holes.iter().chain(last + 1..) for one accepted index:
\* stops at the first hole above the index, pushes at a hole equal to it
InHoles(index, holes) ==
    \/ \E k \in 1..Len(holes) :
          /\ holes[k] = index
          /\ \A j \in 1..(k - 1) : holes[j] <= index
    \/ /\ \A j \in 1..Len(holes) : holes[j] <= index
       /\ index >= holes[Len(holes)] + 1

RECURSIVE FilterHoles(_, _)
FilterHoles(acc, holes) ==
    IF acc = <<>> THEN <<>>
    ELSE (IF InHoles(Head(acc)[1], holes) THEN <<Head(acc)>> ELSE <<>>)
         \o FilterHoles(Tail(acc), holes)

(* ---------------------------- transport -------------------------------- *)

\* UdpNetworkNode::broadcast: one datagram per known peer
Broadcast(n, body) ==
    {[body EXCEPT !.src = n, !.dst = p] : p \in peers[n]}

Prepare(id, holes) ==
    [type |-> "Prepare", src |-> 0, dst |-> 0, id |-> id, holes |-> holes]
Promise(id, accepted) ==
    [type |-> "Promise", src |-> 0, dst |-> 0, id |-> id, accepted |-> accepted]
Propose(id, instance, value) ==
    [type |-> "Propose", src |-> 0, dst |-> 0, id |-> id,
     instance |-> instance, value |-> value]
Accept(id, instance) ==
    [type |-> "Accept", src |-> 0, dst |-> 0, id |-> id, instance |-> instance]
Learn(id, instance, value) ==
    [type |-> "Learn", src |-> 0, dst |-> 0, id |-> id,
     instance |-> instance, value |-> value]
Nack(id, instance) ==
    [type |-> "Nack", src |-> 0, dst |-> 0, id |-> id, instance |-> instance]
ClientRequest(value) ==
    [type |-> "ClientRequest", src |-> 0, dst |-> 0, value |-> value]

To(src, dst, body) == [body EXCEPT !.src = src, !.dst = dst]

\* what the history keeps of a datagram: its variant, sender, ballot and slot
Digest(d) ==
    [type |-> d.type, src |-> d.src,
     id |-> IF d.type = "ClientRequest" THEN <<0, 0>> ELSE d.id,
     instance |-> IF d.type \in {"Propose", "Accept", "Learn", "Nack"}
                  THEN d.instance ELSE 0]

\* socket.send_to / recv_from: the datagrams rcvd leave the network, the
\* datagrams sent enter it (a datagram to an id that is no replica goes nowhere)
Transport(rcvd, sent) ==
    /\ net' = (net (-) SetToBag(rcvd)) (+) SetToBag({d \in sent : d.dst \in Nodes})
    \* the runs explored keep at most bound.inflight datagrams in flight: a step
    \* that sends waits for room; where replies are not counted, only a step
    \* that sends without having received does
    /\ (sent # {} /\ (rcvd = {} \/ "replies" \in bound.count))
          => BagCardinality(net') <= bound.inflight
    /\ outbox' = sent
    /\ msgs' = msgs \cup {Digest(d) : d \in {x \in sent : x.type \in bound.history}}

(* ---------------------------- Init ------------------------------------- *)

\* the orders in which the replicas of ids can have started their leases
RECURSIVE StartOrders(_)
StartOrders(ids) ==
    IF ids = {} THEN {<<>>}
    ELSE UNION {{<<n>> \o o : o \in StartOrders(ids \ {n})} : n \in ids}

\* PaxosServer::new(node, node_id, size) on a thread of its own for every
\* replica: leader_lease_start is Instant::now() of that thread
Servers(size, bnd) ==
    /\ group_size = size
    /\ lease_phase \in StartOrders(1..size)
    /\ bound = bnd
    /\ log = [n \in 1..size |-> <<>>]
    /\ highest_promised = [n \in 1..size |-> <<0, 0>>]
    /\ current_leader = [n \in 1..size |-> 0]
    /\ lease_elapsed = [n \in 1..size |-> 0]
    /\ promises = [n \in 1..size |-> <<>>]
    /\ client_cmd_queue = [n \in 1..size |-> <<>>]
    /\ alive = [n \in 1..size |-> TRUE]
    /\ applied = [n \in 1..size |-> <<>>]
    /\ net = EmptyBag
    /\ msgs = {}
    /\ outbox = {}
    /\ inbox = {}
    /\ elections = 0
    /\ requests = 0
    /\ dups = 0
    /\ lost = 0
    /\ foreign = 0

\* start_replicas(size): every node discovers every other node
Replicas(size, bnd) ==
    /\ Servers(size, bnd)
    /\ peers = [n \in 1..size |-> (1..size) \ {n}]

\* start_replica(size), size times: no node discovers anyone
LoneReplicas(size, bnd) ==
    /\ Servers(size, bnd)
    /\ peers = [n \in 1..size |-> {}]

NoCall == [op |-> "none"]

\* the replicas alone: no function is applied on its own
Setup(size, bnd) ==
    /\ Replicas(size, bnd)
    /\ call = NoCall
    /\ ret = <<>>

Init ==
    Setup(NumReplicas,
          [round |-> MaxRound, log |-> MaxLog, elections |-> MaxElections,
           requests |-> MaxRequests, dups |-> MaxDup, inflight |-> MaxInFlight,
           history |-> {"Prepare", "Promise"}, inbox |-> TRUE, foreign |-> 0,
           losses |-> MaxLosses,
           count |-> {"elections", "replies", "losses"},
           targets |-> NumReplicas])

InitTwoLeaders ==
    Setup(NumReplicas,
          [round |-> TwoRound, log |-> TwoLog, elections |-> TwoElections,
           requests |-> TwoRequests, dups |-> TwoDup, inflight |-> TwoInFlight,
           history |-> {}, inbox |-> FALSE, foreign |-> 0,
           losses |-> TwoLosses,
           count |-> {"elections", "replies", "losses"},
           targets |-> NumReplicas])

InitQuorum3 ==
    Setup(NumReplicasQ,
          [round |-> QRound, log |-> QLog, elections |-> QElections,
           requests |-> QRequests, dups |-> QDup, inflight |-> QInFlight,
           history |-> {"Accept"}, inbox |-> FALSE, foreign |-> 0,
           losses |-> QLosses,
           count |-> {"elections", "replies", "losses"},
           targets |-> NumReplicasQ])

InitStale ==
    Setup(NumReplicas,
          [round |-> StaleRound, log |-> StaleLog, elections |-> StaleElections,
           requests |-> StaleRequests, dups |-> StaleDup, inflight |-> StaleInFlight,
           history |-> {"Promise"}, inbox |-> FALSE, foreign |-> 0,
           losses |-> StaleLosses,
           count |-> {"elections", "replies", "losses"},
           targets |-> NumReplicas])

\* what no step changes: the group, the bounds of the run, and applied, since
\* no handler of PaxosServer calls ReplicatedStateMachine::execute
Fixed == UNCHANGED <<group_size, peers, bound, applied, call, ret>>

\* no step of the replicas among themselves brings in a foreign datagram
OwnTraffic == UNCHANGED foreign

\* no step of a replica loses a datagram
Delivered == UNCHANGED lost

(* ---------------------------- actions ---------------------------------- *)

\* the lease of replica n starts anew: leader_lease_start = Instant::now()
RestartLease(n) ==
    /\ lease_elapsed' = [lease_elapsed EXCEPT ![n] = 0]
    /\ lease_phase' = <<n>> \o SelectSeq(lease_phase, LAMBDA p : p # n)

\* time passes until the next lease completes a second: of the leases below
\* LEASE_DURATION, the one that has run the largest fraction of a second;
\* leader_lease_start.elapsed().as_secs() of that replica grows by one
Tick ==
    /\ lease_phase # <<>>
    /\ LET n == lease_phase[Len(lease_phase)]
           rest == SubSeq(lease_phase, 1, Len(lease_phase) - 1) IN
        /\ lease_elapsed' = [lease_elapsed EXCEPT ![n] = @ + 1]
        /\ lease_phase' = IF lease_elapsed[n] + 1 < LEASE_DURATION
                          THEN <<n>> \o rest ELSE rest
    /\ Transport({}, {})
    /\ inbox' = {}
    /\ UNCHANGED <<log, highest_promised, current_leader, promises,
                   client_cmd_queue, alive, elections, requests, dups>>
    /\ Fixed
    /\ OwnTraffic
    /\ Delivered

\* run: the lease check after recv timed out, then start_election
StartElection(n) ==
    /\ alive[n]
    /\ "elections" \in bound.count => elections < bound.elections
    /\ \/ lease_elapsed[n] >= LEASE_DURATION
       \/ /\ lease_elapsed[n] >= LEASE_DURATION \div 2
          /\ n = current_leader[n]
    /\ LET b == increment_for(highest_promised[n], n) IN
        /\ b[1] <= bound.round
        /\ highest_promised' = [highest_promised EXCEPT ![n] = b]
        /\ promises' = [promises EXCEPT ![n] =
              <<[id |-> b, accepted |-> get_accepted_values_iter(log[n])]>>]
        /\ Transport({}, Broadcast(n, Prepare(b, Holes(log[n]))))
    /\ elections' = IF "elections" \in bound.count THEN elections + 1 ELSE elections
    /\ inbox' = {}
    /\ UNCHANGED <<log, current_leader, lease_elapsed, lease_phase, client_cmd_queue,
                   alive, requests, dups>>
    /\ Fixed
    /\ OwnTraffic
    /\ Delivered

\* faulty variant: a Prepare is never found stale
PrepareStaleNever(id, promised) == FALSE

\* handle_prepare: id < self.highest_promised
PrepareStale(id, promised) == BallotLT(id, promised)

\* faulty variant: the lease is never looked at
LeaseHeldNever(n, src) == FALSE

\* handle_prepare: the lease is running and held by a node other than src
LeaseHeldByOther(n, src) ==
    lease_elapsed[n] < LEASE_DURATION /\ src # current_leader[n]

HandlePrepare(n, m, rcvd) ==
    /\ m.type = "Prepare"
    /\ IF PrepareStale(m.id, highest_promised[n]) \/ LeaseHeldByOther(n, m.src)
       THEN /\ Transport(rcvd, {})
            /\ UNCHANGED <<highest_promised, current_leader, lease_elapsed, lease_phase>>
       ELSE /\ highest_promised' = [highest_promised EXCEPT ![n] = m.id]
            /\ current_leader' = [current_leader EXCEPT ![n] = m.src]
            /\ RestartLease(n)
            /\ Transport(rcvd, {To(n, m.src,
                  Promise(m.id, FilterHoles(get_accepted_values_iter(log[n]), m.holes)))})
    /\ UNCHANGED <<log, promises, client_cmd_queue, alive>>

\* the slots handle_promise walks: entries with chosen = false, by index
NonChosen(lg) == {i \in 1..Len(lg) : ~lg[i].chosen}

\* instance.value.as_ref().unwrap() panics at the first such entry without a value
UnwrapPanics(lg) == \E i \in NonChosen(lg) : lg[i].value = None

\* the entries reached by the loop before it ends or panics
Reproposed(lg) ==
    {i \in NonChosen(lg) : \A j \in NonChosen(lg) : j <= i => lg[j].value # None}

\* the value handle_promise puts in the Propose for entry i: the replica's own
ReproposeValue(lg, i, proms) == lg[i].value

HandlePromise(n, m, rcvd) ==
    /\ m.type = "Promise"
    /\ IF m.id # highest_promised[n]
       THEN /\ Transport(rcvd, {})
            /\ UNCHANGED <<promises, current_leader, lease_elapsed, lease_phase, alive>>
       ELSE LET proms == Append(promises[n], [id |-> m.id, accepted |-> m.accepted]) IN
            /\ promises' = [promises EXCEPT ![n] = proms]
            /\ IF Len(proms) = quorum
               THEN /\ current_leader' = [current_leader EXCEPT ![n] = n]
                    /\ RestartLease(n)
                    /\ Transport(rcvd, UNION {Broadcast(n,
                          Propose(m.id, i - 1, ReproposeValue(log[n], i, proms))) :
                            i \in Reproposed(log[n])})
                    /\ alive' = [alive EXCEPT ![n] = ~UnwrapPanics(log[n])]
               ELSE /\ Transport(rcvd, {})
                    /\ UNCHANGED <<current_leader, lease_elapsed, lease_phase, alive>>
    /\ UNCHANGED <<log, highest_promised, client_cmd_queue>>

\* faulty variant: a Propose is never found stale
ProposeStaleNever(id, promised) == FALSE

\* handle_propose: id < self.highest_promised
ProposeStale(id, promised) == BallotLT(id, promised)

\* faulty variant: the accepted entry is built afresh, its other fields reset
HandleProposeFreshEntry(n, m, rcvd) ==
    /\ m.type = "Propose"
    /\ IF ProposeStale(m.id, highest_promised[n])
       THEN /\ Transport(rcvd, {To(n, m.src, Nack(m.id, m.instance))})
            /\ UNCHANGED <<log, current_leader>>
       ELSE /\ current_leader' = [current_leader EXCEPT ![n] = m.src]
            /\ Transport(rcvd, {To(n, m.src, Accept(m.id, m.instance))})
            /\ log' = [log EXCEPT ![n] =
                  [Grow(log[n], m.instance) EXCEPT
                      ![m.instance + 1] = [LogEntry_new EXCEPT
                          !.value = m.value, !.accepted_id = m.id]]]
    /\ UNCHANGED <<highest_promised, lease_elapsed, lease_phase, promises, client_cmd_queue, alive>>

HandlePropose(n, m, rcvd) ==
    /\ m.type = "Propose"
    /\ IF ProposeStale(m.id, highest_promised[n])
       THEN /\ Transport(rcvd, {To(n, m.src, Nack(m.id, m.instance))})
            /\ UNCHANGED <<log, current_leader>>
       ELSE /\ current_leader' = [current_leader EXCEPT ![n] = m.src]
            /\ Transport(rcvd, {To(n, m.src, Accept(m.id, m.instance))})
            /\ log' = [log EXCEPT ![n] =
                  [Grow(log[n], m.instance) EXCEPT
                      ![m.instance + 1].value = m.value,
                      ![m.instance + 1].accepted_id = m.id]]
    /\ UNCHANGED <<highest_promised, lease_elapsed, lease_phase, promises, client_cmd_queue, alive>>

HandleAccept(n, m, rcvd) ==
    /\ m.type = "Accept"
    /\ IF m.id # highest_promised[n]
       THEN /\ Transport(rcvd, {})
            /\ UNCHANGED <<log, alive>>
       ELSE IF m.instance >= Len(log[n])
       THEN \* self.log[instance]: index out of bounds
            /\ alive' = [alive EXCEPT ![n] = FALSE]
            /\ Transport(rcvd, {})
            /\ UNCHANGED log
       ELSE LET e == log[n][m.instance + 1]
                k == e.acceptances + 1 IN
            IF k = quorum
            THEN IF e.value = None
                 THEN \* value.clone().unwrap() on None
                      /\ log' = [log EXCEPT ![n][m.instance + 1].acceptances = k]
                      /\ alive' = [alive EXCEPT ![n] = FALSE]
                      /\ Transport(rcvd, {})
                 ELSE /\ Transport(rcvd, Broadcast(n, Learn(m.id, m.instance, e.value)))
                      /\ log' = [log EXCEPT ![n][m.instance + 1].acceptances = k,
                                            ![n][m.instance + 1].chosen = TRUE]
                      /\ UNCHANGED alive
            ELSE /\ log' = [log EXCEPT ![n][m.instance + 1].acceptances = k]
                 /\ Transport(rcvd, {})
                 /\ UNCHANGED alive
    /\ UNCHANGED <<highest_promised, current_leader, lease_elapsed, lease_phase, promises,
                   client_cmd_queue>>

\* faulty variant: the slot is marked chosen but the learned value is not stored
HandleLearnNoValue(n, m, rcvd) ==
    /\ m.type = "Learn"
    /\ log' = [log EXCEPT ![n] =
          [Grow(log[n], m.instance) EXCEPT
              ![m.instance + 1].accepted_id = m.id,
              ![m.instance + 1].chosen = TRUE]]
    /\ Transport(rcvd, {})
    /\ UNCHANGED <<highest_promised, current_leader, lease_elapsed, lease_phase, promises,
                   client_cmd_queue, alive>>

HandleLearn(n, m, rcvd) ==
    /\ m.type = "Learn"
    /\ log' = [log EXCEPT ![n] =
          [Grow(log[n], m.instance) EXCEPT
              ![m.instance + 1].value = m.value,
              ![m.instance + 1].accepted_id = m.id,
              ![m.instance + 1].chosen = TRUE]]
    /\ Transport(rcvd, {})
    /\ UNCHANGED <<highest_promised, current_leader, lease_elapsed, lease_phase, promises,
                   client_cmd_queue, alive>>

HandleNack(n, m, rcvd) ==
    /\ m.type = "Nack"
    /\ Transport(rcvd, {})
    /\ UNCHANGED <<log, highest_promised, current_leader, lease_elapsed, lease_phase, promises,
                   client_cmd_queue, alive>>

\* UdpNetworkNode::send: send_to fails for the address of id 0 (port 0),
\* the initial current_leader; it succeeds for the address of a replica
SendOk(dst) == dst \in Nodes

\* faulty variant: the command is handled locally whoever the leader is
HandleClientRequestAnyone(n, cmd, rcvd) ==
    /\ Len(log[n]) < bound.log
    /\ log' = [log EXCEPT ![n] = Append(@, LogEntry_new_with_value(cmd))]
    /\ Transport(rcvd,
          Broadcast(n, Propose(highest_promised[n], Len(log[n]), cmd)))
    /\ UNCHANGED <<highest_promised, current_leader, lease_elapsed, lease_phase, promises,
                   client_cmd_queue, alive>>

HandleClientRequest(n, cmd, rcvd) ==
    /\ IF n = current_leader[n]
       THEN /\ Len(log[n]) < bound.log
            /\ log' = [log EXCEPT ![n] = Append(@, LogEntry_new_with_value(cmd))]
            /\ Transport(rcvd,
                  Broadcast(n, Propose(highest_promised[n], Len(log[n]), cmd)))
            /\ UNCHANGED client_cmd_queue
       ELSE IF SendOk(current_leader[n])
       THEN /\ Transport(rcvd, {To(n, current_leader[n], ClientRequest(cmd))})
            /\ UNCHANGED <<log, client_cmd_queue>>
       ELSE /\ client_cmd_queue' = [client_cmd_queue EXCEPT ![n] = Append(@, cmd)]
            /\ Transport(rcvd, {})
            /\ UNCHANGED log
    /\ UNCHANGED <<highest_promised, current_leader, lease_elapsed, lease_phase, promises, alive>>

\* run: recv returned (src, msg); handle_paxos_message dispatches on the variant.
\* The transport may hand the same datagram over again later (dup).
Receive(n) ==
    /\ alive[n]
    /\ \E m \in BagToSet(net), dup \in BOOLEAN :
        /\ m.dst = n
        /\ inbox' = IF bound.inbox THEN {m} ELSE {}
        /\ IF dup THEN dups < bound.dups /\ dups' = dups + 1 ELSE dups' = dups
        /\ LET rcvd == IF dup THEN {} ELSE {m} IN
           \/ HandlePrepare(n, m, rcvd)
           \/ HandlePromise(n, m, rcvd)
           \/ HandlePropose(n, m, rcvd)
           \/ HandleAccept(n, m, rcvd)
           \/ HandleLearn(n, m, rcvd)
           \/ HandleNack(n, m, rcvd)
           \/ m.type = "ClientRequest" /\ HandleClientRequest(n, m.value, rcvd)
    /\ UNCHANGED <<elections, requests>>
    /\ Fixed
    /\ OwnTraffic
    /\ Delivered

\* lib.rs submit_value: a client's node of its own (no replica, sender 0)
\* sends one ClientRequest to replica n and returns
SubmitValue(n) ==
    /\ n <= bound.targets
    /\ requests < bound.requests
    /\ requests' = requests + 1
    /\ inbox' = {}
    /\ Transport({}, {To(0, n, ClientRequest(Values[requests + 1]))})
    /\ UNCHANGED <<log, highest_promised, current_leader, lease_elapsed, lease_phase,
                   promises, client_cmd_queue, alive, elections, dups>>
    /\ Fixed
    /\ OwnTraffic
    /\ Delivered

\* the transport loses a datagram
Lose ==
    /\ "losses" \in bound.count => lost < bound.losses
    /\ lost' = IF "losses" \in bound.count THEN lost + 1 ELSE lost
    /\ \E m \in BagToSet(net) : Transport({m}, {})
    /\ inbox' = {}
    /\ UNCHANGED <<log, highest_promised, current_leader, lease_elapsed, lease_phase, promises,
                   client_cmd_queue, alive, elections, requests, dups>>
    /\ Fixed
    /\ OwnTraffic

\* a replica misses a Propose
LosePropose ==
    /\ Lose
    /\ \E m \in BagToSet(net) : m.type = "Propose" /\ CopiesIn(m, net') < CopiesIn(m, net)

Next ==
    \/ Tick
    \/ Lose
    \/ \E n \in Nodes : StartElection(n)
    \/ \E n \in Nodes : Receive(n)
    \/ \E n \in Nodes : SubmitValue(n)

Spec == Init /\ [][Next]_vars

SpecTwoLeaders == InitTwoLeaders /\ [][Next]_vars

\* the transport loses Propose datagrams only
NextQuorum3 ==
    \/ Tick
    \/ LosePropose
    \/ \E n \in Nodes : StartElection(n)
    \/ \E n \in Nodes : Receive(n)
    \/ \E n \in Nodes : SubmitValue(n)

SpecQuorum3 == InitQuorum3 /\ [][NextQuorum3]_vars

SpecStale == InitStale /\ [][Next]_vars

InitGap ==
    Setup(NumReplicas,
          [round |-> GapRound, log |-> GapLog, elections |-> GapElections,
           requests |-> GapRequests, dups |-> 0, inflight |-> GapInFlight,
           history |-> {}, inbox |-> FALSE, foreign |-> 0,
           losses |-> GapLosses, count |-> {"elections", "replies", "losses"},
           targets |-> GapTargets])

SpecGap == InitGap /\ [][Next]_vars

\* two commands while datagrams to one replica are lost; the run
\* keeps the datagram handled by the last step
InitReport ==
    Setup(NumReplicas,
          [round |-> ReportRound, log |-> ReportLog, elections |-> ReportElections,
           requests |-> ReportRequests, dups |-> 0, inflight |-> ReportInFlight,
           history |-> {}, inbox |-> TRUE, foreign |-> 0,
           losses |-> ReportLosses, count |-> {"elections", "replies", "losses"},
           targets |-> NumReplicas, cutoff |-> ReportCutOff])

\* the transport loses a datagram on its way to the replica that is cut off
LoseCutOff ==
    /\ Lose
    /\ \E m \in BagToSet(net) : m.dst = bound.cutoff /\ CopiesIn(m, net') < CopiesIn(m, net)

NextReport ==
    \/ Tick
    \/ LoseCutOff
    \/ \E n \in Nodes : StartElection(n)
    \/ \E n \in Nodes : Receive(n)
    \/ \E n \in Nodes : SubmitValue(n)

SpecReport == InitReport /\ [][NextReport]_vars

(* ---------------------------- replicas started alone ------------------- *)

\* start_replica(NumReplicas), NumReplicas times: broadcast reaches nobody, so
\* an election sends nothing and no Promise ever comes back
InitAlone ==
    /\ LoneReplicas(NumReplicas,
          [round |-> AloneRound, log |-> AloneLog, elections |-> AloneElections,
           requests |-> AloneRequests, dups |-> AloneDup, inflight |-> AloneInFlight,
           history |-> {}, inbox |-> TRUE, foreign |-> 0,
           losses |-> AloneLosses, count |-> {"elections", "replies", "losses"},
           targets |-> NumReplicas])
    /\ call = NoCall
    /\ ret = <<>>

SpecAlone == InitAlone /\ [][Next]_vars

(* ---------------------------- foreign datagrams ------------------------ *)

InitForeign ==
    Setup(NumReplicas,
          [round |-> FgnRound, log |-> FgnLog, elections |-> FgnElections,
           requests |-> FgnRequests, dups |-> FgnDup, inflight |-> FgnInFlight,
           history |-> {}, inbox |-> TRUE, foreign |-> FgnDatagrams,
           losses |-> FgnLosses,
           count |-> {"elections", "replies", "losses"},
           targets |-> NumReplicas])

\* run: recv_from hands over a datagram from an address that is no replica's
\* (the socket takes datagrams from anyone): an Accept, which handle_accept
\* takes without looking at its sender
ReceiveForeign(n) ==
    /\ alive[n]
    /\ foreign < bound.foreign
    /\ foreign' = foreign + 1
    /\ \E id \in {highest_promised[p] : p \in Nodes}, instance \in 0..bound.log :
          LET m == To(0, n, Accept(id, instance)) IN
          /\ inbox' = {m}
          /\ HandleAccept(n, m, {})
    /\ UNCHANGED <<elections, requests, dups>>
    /\ Fixed
    /\ Delivered

NextForeign ==
    \/ Next
    \/ \E n \in Nodes : ReceiveForeign(n)

SpecForeign == InitForeign /\ [][NextForeign]_vars

(* ------------------- fair runs of the replicas ------------------------- *)

\* run: every replica keeps receiving what is addressed to it and keeps
\* checking its lease, and time passes
Fairness ==
    /\ WF_vars(Tick)
    /\ \A n \in 1..NumReplicas : WF_vars(Receive(n)) /\ WF_vars(StartElection(n))

\* no crash, no loss, no duplication; elections are not counted
InitLive ==
    Setup(NumReplicas,
          [round |-> LiveRound, log |-> LiveLog, elections |-> 0,
           requests |-> LiveRequests, dups |-> 0, inflight |-> LiveInFlight,
           history |-> {}, inbox |-> FALSE, foreign |-> 0,
           losses |-> 0, count |-> {},
           targets |-> NumReplicas])

NextLive ==
    \/ Tick
    \/ \E n \in Nodes : StartElection(n)
    \/ \E n \in Nodes : Receive(n)
    \/ \E n \in Nodes : SubmitValue(n)

SpecLive == InitLive /\ [][NextLive]_vars /\ Fairness

\* the transport loses HealLosses Learn datagrams at most, then delivers all
InitHeal ==
    Setup(NumReplicas,
          [round |-> HealRound, log |-> HealLog, elections |-> 0,
           requests |-> HealRequests, dups |-> 0, inflight |-> HealInFlight,
           history |-> {}, inbox |-> FALSE, foreign |-> 0,
           losses |-> HealLosses, count |-> {"losses"},
           targets |-> NumReplicas])

\* a replica misses a Learn
LoseLearn ==
    /\ Lose
    /\ \E m \in BagToSet(net) : m.type = "Learn" /\ CopiesIn(m, net') < CopiesIn(m, net)

NextHeal ==
    \/ NextLive
    \/ LoseLearn

SpecHeal == InitHeal /\ [][NextHeal]_vars /\ Fairness


(* ---------------------------- functions applied on their own ----------- *)

\* a run of no replica step: the bounds when only a function is applied
NoRun ==
    [round |-> 0, log |-> 0, elections |-> 0, requests |-> 0, dups |-> 0,
     inflight |-> 0, history |-> {}, inbox |-> FALSE, foreign |-> 0,
     losses |-> 0, count |-> {},
           targets |-> NumReplicas]

ReplicaVars ==
    <<group_size, peers, log, highest_promised, current_leader, lease_elapsed,
      lease_phase, promises,
      client_cmd_queue, alive, applied, net, msgs, inbox, outbox, elections,
      requests, dups, lost, foreign, bound>>

\* Ballot(r, m).increment_for(node_id) for the ballots and ids within the bounds
InitBallot ==
    /\ Replicas(NumReplicas, NoRun)
    /\ call \in {[op |-> "increment_for", b |-> <<r, m>>, node_id |-> n] :
                    r \in 0..BallotRounds, m \in 0..BallotIds, n \in 0..BallotIds}
    /\ ret = <<>>

CallIncrementFor ==
    /\ call.op = "increment_for"
    /\ ret = <<>>
    /\ ret' = <<increment_for(call.b, call.node_id)>>
    /\ UNCHANGED <<ReplicaVars, call>>

NextBallot == CallIncrementFor

SpecBallot == InitBallot /\ [][NextBallot]_vars

\* A usize is kept as four 16-bit words, lowest first (a 64-bit target), a u32
\* as two: the numbers of addr_to_node_id exceed what TLC's integers hold.
Word == 65536

usize_from_u32(x) == <<x[1], x[2], 0, 0>>
usize_from_u16(x) == <<x, 0, 0, 0>>

\* x * 65536, wrapping at 64 bits
usize_mul_65536(x) == <<0, x[1], x[2], x[3]>>

\* x + y, wrapping at 64 bits
usize_add(x, y) ==
    LET s1 == x[1] + y[1]
        s2 == x[2] + y[2] + s1 \div Word
        s3 == x[3] + y[3] + s2 \div Word
        s4 == x[4] + y[4] + s3 \div Word
    IN <<s1 % Word, s2 % Word, s3 % Word, s4 % Word>>

\* x / 65536 and x % 65536
usize_div_65536(x) == <<x[2], x[3], x[4], 0>>
usize_rem_65536(x) == <<x[1], 0, 0, 0>>

\* the casts "as u32" and "as u16": the low bits
as_u32(x) == <<x[1], x[2]>>
as_u16(x) == x[1]

\* Some(ipv4 as usize * 65536 + port as usize) for an IPv4 address
addr_to_node_id(addr) ==
    usize_add(usize_mul_65536(usize_from_u32(addr.ip)), usize_from_u16(addr.port))

\* faulty variant: the ip is cut to 16 bits
node_id_to_addr_ip16(node_id) ==
    [ip |-> <<as_u16(usize_div_65536(node_id)), 0>>,
     port |-> as_u16(usize_rem_65536(node_id))]

node_id_to_addr(node_id) ==
    [ip |-> as_u32(usize_div_65536(node_id)),
     port |-> as_u16(usize_rem_65536(node_id))]

\* the 16-bit words the addresses are drawn from: both ends and the byte edges
AddrWords == {0, 1, 255, 256, 32768, 65535}

\* tests::node_id_addr_conversion for an address (ip: u32, port: u16)
InitAddr ==
    /\ Replicas(NumReplicas, NoRun)
    /\ call \in {[op |-> "node_id_addr_conversion",
                   addr |-> [ip |-> <<lo, hi>>, port |-> p]] :
                    lo \in AddrWords, hi \in AddrWords, p \in AddrWords}
    /\ ret = <<>>

CallAddrConversion ==
    /\ call.op = "node_id_addr_conversion"
    /\ ret = <<>>
    /\ ret' = <<node_id_to_addr(addr_to_node_id(call.addr))>>
    /\ UNCHANGED <<ReplicaVars, call>>

NextAddr == CallAddrConversion

SpecAddr == InitAddr /\ [][NextAddr]_vars

(* ---------------------------- properties ------------------------------- *)

\* replica n has chosen = true at slot s
Chosen(n, s) == s < Len(log[n]) /\ log[n][s + 1].chosen

\* C1 (Agreement): for every pair of replicas and every slot, if both have
\* chosen = true at the slot then their values at the slot are equal.
Agreement ==
    \A n1 \in Nodes, n2 \in Nodes :
        \A s \in 0..(Len(log[n1]) - 1) :
            (Chosen(n1, s) /\ Chosen(n2, s)) =>
                log[n1][s + 1].value = log[n2][s + 1].value

\* C2: once a replica has chosen = true for a slot, no later step changes the
\* value stored in that slot on that replica.
ChosenValueFrozen ==
    [][\A n \in Nodes : \A i \in DOMAIN log[n] :
          log[n][i].chosen => log'[n][i].value = log[n][i].value]_vars

\* the replicas that sent an Accept for the slot under ballot id
Acceptors(id, instance) ==
    {a.src : a \in {x \in msgs : x.type = "Accept" /\ x.id = id
                                  /\ x.instance = instance}}

\* C3 (Quorum safety): a leader broadcasts Learn for a slot under ballot b only
\* after a quorum of distinct replicas, itself included, accepted the slot
\* under b; a second Accept of one acceptor adds nothing.
QuorumSafety ==
    \A d \in outbox :
        d.type = "Learn" =>
            Cardinality({d.src} \cup Acceptors(d.id, d.instance)) >= quorum

\* C4: on every replica highest_promised is non-decreasing: no step replaces
\* it with a smaller ballot.
HighestPromisedMonotone ==
    [][\A n \in Nodes : BallotLE(highest_promised[n], highest_promised'[n])]_vars

\* a replica that had promised a larger node id bumped the round for its own
\* election, and another replica granted that Prepare
RoundBumpedAndGranted ==
    \E n \in Nodes, p \in Nodes :
        /\ p # n
        /\ highest_promised[n] = <<1, n>>
        /\ highest_promised[p] = <<1, n>>
        /\ current_leader[p] = n

\* C5: on every replica and for every slot accepted_id is non-decreasing: no
\* Propose or Learn handled later lowers the ballot stored for the slot.
AcceptedIdMonotone ==
    [][\A n \in Nodes : \A i \in DOMAIN log[n] :
          BallotLE(log[n][i].accepted_id, log'[n][i].accepted_id)]_vars

\* the Prepare datagrams broadcast so far
PreparesSent == {d \in msgs : d.type = "Prepare"}

\* C6 (Ballot uniqueness): two distinct replicas never broadcast a Prepare
\* carrying the same ballot.
BallotUnique ==
    \A d1 \in PreparesSent, d2 \in PreparesSent :
        d1.src # d2.src => d1.id # d2.id

\* two replicas have broadcast a Prepare in the same round
TwoCandidatesSameRound ==
    \E d1 \in PreparesSent, d2 \in PreparesSent :
        d1.src # d2.src /\ d1.id[1] = d2.id[1]

\* replica n starts an election in this step
ElectionBy(n) ==
    /\ elections' = elections + 1
    /\ \E d \in outbox' : d.type = "Prepare" /\ d.src = n

\* C7: every election a replica starts uses a ballot strictly greater than
\* its highest_promised before the election.
ElectionStrictlyGreater ==
    [][\A n \in Nodes :
          ElectionBy(n) => BallotLT(highest_promised[n], highest_promised'[n])]_vars

\* C8 (In-order apply): on every replica execute is called for slots 0, 1, 2,
\* ... in ascending order without gaps or repeats, and a chosen slot is
\* applied as soon as all lower slots are chosen.
InOrderApply ==
    \A n \in Nodes :
        /\ \A k \in DOMAIN applied[n] : applied[n][k] = k - 1
        /\ \A s \in 0..(Len(log[n]) - 1) :
              (\A j \in 0..s : Chosen(n, j)) => s < Len(applied[n])

\* the Promise datagrams replica n has sent so far
PromisesSentBy(n) == {d \in msgs : d.type = "Promise" /\ d.src = n}

\* C9 (Promise pledge): a replica that has sent Promise for ballot b never
\* afterwards sends Accept for a Propose whose ballot is less than b.
PromisePledge ==
    \A d \in outbox :
        d.type = "Accept" =>
            \A p \in PromisesSentBy(d.src) : ~BallotLT(d.id, p.id)

\* a replica answers Nack to a Propose below a ballot it has promised
PledgeKept ==
    \E d \in outbox :
        /\ d.type = "Nack"
        /\ \E p \in PromisesSentBy(d.src) : BallotLT(d.id, p.id)

\* the (accepted_id, value) pairs the collected promises report for slot s
Reported(proms, s) ==
    {<<a[2], a[3]>> : a \in {x \in UNION {{pr.accepted[k] : k \in DOMAIN pr.accepted} :
                                         pr \in {proms[j] : j \in DOMAIN proms}} :
                             x[1] = s}}

\* the slots the collected promises report a value for
ReportedSlots(proms) ==
    {a[1] : a \in UNION {{pr.accepted[k] : k \in DOMAIN pr.accepted} :
                            pr \in {proms[j] : j \in DOMAIN proms}}}

\* C10: when a replica collects a quorum of promises, for every slot not yet
\* chosen the value it re-proposes is the value the collected Promise payloads
\* report with the highest accepted ballot for that slot.
ReproposeHighestAccepted ==
    [][\A n \in Nodes :
          (Len(promises[n]) = quorum - 1 /\ Len(promises'[n]) = quorum) =>
              \A s \in ReportedSlots(promises'[n]) :
                  ~Chosen(n, s) =>
                      \E d \in outbox', r \in Reported(promises'[n], s) :
                          /\ d.type = "Propose" /\ d.src = n /\ d.instance = s
                          /\ d.value = r[2]
                          /\ \A r2 \in Reported(promises'[n], s) :
                                BallotLE(r2[1], r[1])]_vars

\* C11 (Lease stability): while a replica's lease has not expired, a Prepare
\* from a node other than current_leader is rejected: no Promise is sent and
\* highest_promised, current_leader and the lease timer stay as they were;
\* a Prepare from current_leader with a ballot that is not stale is granted.
LeaseStability ==
    [][\A m \in inbox' :
          m.type = "Prepare" =>
              LET n == m.dst IN
              /\ (lease_elapsed[n] < LEASE_DURATION /\ m.src # current_leader[n]) =>
                    /\ \A d \in outbox' : d.type # "Promise"
                    /\ highest_promised'[n] = highest_promised[n]
                    /\ current_leader'[n] = current_leader[n]
                    /\ lease_elapsed'[n] = lease_elapsed[n]
              /\ (m.src = current_leader[n] /\ ~BallotLT(m.id, highest_promised[n])) =>
                    /\ \E d \in outbox' :
                          d.type = "Promise" /\ d.dst = m.src /\ d.id = m.id
                    /\ highest_promised'[n] = m.id
                    /\ current_leader'[n] = m.src
                    /\ lease_elapsed'[n] = 0]_vars

\* a replica has just turned down, for the lease alone, a Prepare whose ballot
\* was not stale
LeaseRejected ==
    \E m \in inbox :
        /\ m.type = "Prepare"
        /\ ~BallotLT(m.id, highest_promised[m.dst])
        /\ lease_elapsed[m.dst] < LEASE_DURATION
        /\ m.src # current_leader[m.dst]
        /\ current_leader[m.dst] \in Nodes
        /\ outbox = {}

\* C15: for every ballot (r, m) and node id n, increment_for(n) yields
\* (r + 1, n) when m >= n and (r, n) when m < n, so the result is strictly
\* greater than (r, m).
IncrementForResult ==
    (call.op = "increment_for" /\ ret # <<>>) =>
        /\ ret[1] = IF call.b[2] >= call.node_id
                    THEN <<call.b[1] + 1, call.node_id>>
                    ELSE <<call.b[1], call.node_id>>
        /\ BallotLT(call.b, ret[1])

\* C16: the chosen flag of a slot never goes back from true to false, and the
\* log of a replica never gets shorter.
ChosenMonotone ==
    [][\A n \in Nodes :
          /\ Len(log'[n]) >= Len(log[n])
          /\ \A i \in DOMAIN log[n] : log[n][i].chosen => log'[n][i].chosen]_vars

\* a replica has just accepted a Propose for a slot it already held as chosen
ChosenSurvivesPropose ==
    \E d \in outbox : d.type = "Accept" /\ Chosen(d.src, d.instance)

\* C17 (Address round-trip): for every IPv4 socket address a,
\* node_id_to_addr(addr_to_node_id(a)) = a.
AddrRoundTrip ==
    (call.op = "node_id_addr_conversion" /\ ret # <<>>) => ret[1] = call.addr

\* the conversion has returned for an address whose ip needs more than 16
\* bits and whose port is not 0
WideAddrConverted ==
    /\ call.op = "node_id_addr_conversion"
    /\ ret # <<>>
    /\ call.addr.ip[2] # 0
    /\ call.addr.ip[1] # 0
    /\ call.addr.port # 0

\* C18: the Nack a replica sends for a Propose below its highest_promised
\* carries the replica's own highest_promised as its ballot.
NackCarriesPromised ==
    \A d \in outbox :
        d.type = "Nack" => d.id = highest_promised[d.src]

\* C19: a Propose with a ballot below highest_promised leaves the replica's
\* log, highest_promised, current_leader, lease timer and promises as they
\* were, and no Accept is sent.
StaleProposeNoEffect ==
    [][\A m \in inbox' :
          (m.type = "Propose" /\ BallotLT(m.id, highest_promised[m.dst])) =>
              LET n == m.dst IN
              /\ log'[n] = log[n]
              /\ highest_promised'[n] = highest_promised[n]
              /\ current_leader'[n] = current_leader[n]
              /\ lease_elapsed'[n] = lease_elapsed[n]
              /\ promises'[n] = promises[n]
              /\ \A d \in outbox' : d.type # "Accept"]_vars

\* a replica has just refused a Propose whose ballot was below its
\* highest_promised
StaleProposeRefused ==
    \E m \in inbox :
        /\ m.type = "Propose"
        /\ BallotLT(m.id, highest_promised[m.dst])
        /\ \E d \in outbox : d.type = "Nack" /\ d.src = m.dst /\ d.dst = m.src

\* C20: a slot index beyond the log is never an error: a Propose, Accept or
\* Learn that the handler acts on, for a slot >= len(log), grows the log with
\* default entries up to that slot and the handler completes normally.
OutOfRangeSlotGrowsLog ==
    [][\A m \in inbox' :
          LET n == m.dst IN
          (/\ \/ m.type = "Propose" /\ ~BallotLT(m.id, highest_promised[n])
              \/ m.type = "Accept" /\ m.id = highest_promised[n]
              \/ m.type = "Learn"
           /\ m.instance >= Len(log[n])) =>
              alive'[n] /\ Len(log'[n]) = m.instance + 1]_vars


\* replica n sees its quorum of promises in this step (handle_promise)
ElectedNow(n) ==
    /\ Len(promises[n]) = quorum - 1
    /\ Len(promises'[n]) = quorum
    /\ current_leader'[n] = n

\* replica n relays a client command to its leader in this step, and the send succeeds
RelayedNow(n) ==
    \E d \in outbox' : d.src = n /\ d.type = "ClientRequest"

\* C14: a command queued after a failed relay is drained: a step in which the
\* replica is elected, or in which a relay of it succeeds, leaves its
\* client_cmd_queue empty
QueueDrained ==
    [][\A n \in Nodes :
          (client_cmd_queue[n] # <<>> /\ (ElectedNow(n) \/ RelayedNow(n)))
             => client_cmd_queue'[n] = <<>>]_vars


\* slot s is chosen with value v on every replica
ChosenEverywhere(s, v) ==
    \A n \in Nodes : Chosen(n, s) /\ log[n][s + 1].value = v

\* a client has just sent its command, and some replica has been elected
SubmittedUnderLeader ==
    /\ \E d \in outbox : d.type = "ClientRequest" /\ d.src = 0
    /\ \E l \in Nodes : current_leader[l] = l

\* C12: without failures and with fair delivery, the command submitted after
\* a leader was elected is eventually chosen at slot 0 on all three replicas
LivenessNoFailures ==
    SubmittedUnderLeader ~> ChosenEverywhere(0, Values[1])

\* C13: once the transport delivers again, a slot chosen on some replica is
\* eventually chosen with the same value on every live replica
CatchUp ==
    (\E n \in Nodes : Chosen(n, 0))
        ~> (\A p \in Nodes : alive[p] =>
               /\ Chosen(p, 0)
               /\ \A n \in Nodes : Chosen(n, 0) => log[p][1].value = log[n][1].value)


\* the non-chosen slots of lg that have no value
AbsentSlots(lg) == {i - 1 : i \in {j \in NonChosen(lg) : lg[j].value = None}}

\* C21: a replica that reaches its quorum of promises while a non-chosen slot
\* of its log has no value, and no promise reports one for it, sends no Propose
\* for that slot, leaves the slot absent and completes normally
AbsentSlotNotProposed ==
    [][\A n \in Nodes :
          (Len(promises[n]) = quorum - 1 /\ Len(promises'[n]) = quorum) =>
              \A s \in AbsentSlots(log[n]) \ ReportedSlots(promises'[n]) :
                  /\ alive'[n]
                  /\ log'[n][s + 1].value = None
                  /\ ~\E d \in outbox' : d.type = "Propose" /\ d.src = n /\ d.instance = s]_vars


\* replica n handles a client command locally in this step: it takes itself
\* for the leader, its log changes and it broadcasts a Propose
HandledLocally(n) ==
    /\ current_leader[n] = n
    /\ log'[n] # log[n]
    /\ \E d \in outbox' : d.type = "Propose" /\ d.src = n

\* the command of the step: that of the ClientRequest handled, sent by a
\* client or relayed by a replica
Command == (CHOOSE m \in inbox' : TRUE).value

\* C22: a leader handling a client command locally appends exactly one entry at
\* slot len(log) with value = cmd, acceptances = 1 (itself), accepted ballot =
\* highest_promised and chosen = false, and broadcasts Propose{slot,
\* highest_promised, cmd}
LocalCommandEntry ==
    [][\A n \in Nodes : HandledLocally(n) =>
          LET s == Len(log[n]) IN
          /\ Len(log'[n]) = s + 1
          /\ SubSeq(log'[n], 1, s) = log[n]
          /\ log'[n][s + 1] = [value |-> Command, acceptances |-> 1,
                               accepted_id |-> highest_promised[n], chosen |-> FALSE]
          /\ outbox' = Broadcast(n, Propose(highest_promised[n], s, Command))]_vars


\* C23: a replica handles a client command locally only if it is
\* current_leader and its lease has not expired; in every other case its log
\* is left alone
LocalOnlyUnderLease ==
    [][\A n \in Nodes :
          /\ HandledLocally(n) => lease_elapsed[n] < LEASE_DURATION
          /\ \A m \in inbox' :
                (/\ m.type = "ClientRequest" /\ m.dst = n
                 /\ ~(current_leader[n] = n /\ lease_elapsed[n] < LEASE_DURATION))
                    => log'[n] = log[n]]_vars


\* the (slot, accepted ballot, value) triples of the entries of lg that have a
\* value and whose slot is listed in holes or is at or above the last of holes
RequestedTriples(lg, holes) ==
    LET Wanted(i) == /\ lg[i].value # None
                     /\ \/ \E k \in DOMAIN holes : holes[k] = i - 1
                        \/ i - 1 >= holes[Len(holes)]
        slots == {i \in 1..Len(lg) : Wanted(i)}
        Nth(k) == CHOOSE i \in slots : Cardinality({j \in slots : j < i}) = k - 1
    IN [k \in 1..Cardinality(slots) |->
           <<Nth(k) - 1, lg[Nth(k)].accepted_id, lg[Nth(k)].value>>]

\* the Promises sent in this step in answer to the Prepare m
PromisesFor(m) ==
    {d \in outbox' : d.type = "Promise" /\ d.src = m.dst /\ d.dst = m.src}

\* C24: the Promise that grants Prepare{b, holes} carries ballot b and exactly
\* the accepted triples whose slot is a listed hole or is at or above the
\* terminal sentinel; the other slots are omitted
PromiseCarriesRequested ==
    [][\A m \in inbox' : m.type = "Prepare" =>
          \A d \in PromisesFor(m) :
              /\ d.id = m.id
              /\ d.accepted = RequestedTriples(log[m.dst], m.holes)]_vars

\* d is the Promise that answers the Prepare m, handled in the last step
Grants(m, d) ==
    /\ m.type = "Prepare" /\ d.type = "Promise"
    /\ d.src = m.dst /\ d.dst = m.src /\ d.id = m.id

\* the slots the Promise d reports
SlotsIn(d) == {d.accepted[k][1] : k \in DOMAIN d.accepted}

\* a Promise reports the value at a listed hole and leaves out a value its
\* sender holds at a slot the Prepare did not ask for
ReportedAndOmitted ==
    \E m \in inbox, d \in outbox :
        /\ Grants(m, d)
        /\ \E j \in 1..(Len(m.holes) - 1) : m.holes[j] \in SlotsIn(d)
        /\ \E i \in 1..Len(log[m.dst]) :
              log[m.dst][i].value # None /\ (i - 1) \notin SlotsIn(d)

\* a Promise reports the value at the slot of the terminal sentinel
SentinelSlotReported ==
    \E m \in inbox, d \in outbox :
        Grants(m, d) /\ m.holes[Len(m.holes)] \in SlotsIn(d)

\* a Promise reports a value at a slot above the terminal sentinel
AboveSentinelReported ==
    \E m \in inbox, d \in outbox :
        Grants(m, d) /\ \E s \in SlotsIn(d) : s > m.holes[Len(m.holes)]


\* the replica that handles m answers it with an Accept in this step
AcceptsNow(m) ==
    \E d \in outbox' : /\ d.type = "Accept" /\ d.src = m.dst /\ d.dst = m.src
                       /\ d.id = m.id /\ d.instance = m.instance

\* C25: accepting a Propose with ballot b never leaves highest_promised below b
PromisedCoversAccepted ==
    [][\A m \in inbox' :
          (m.type = "Propose" /\ AcceptsNow(m))
             => BallotLE(m.id, highest_promised'[m.dst])]_vars


\* C26: a replica broadcasts Propose with ballot b only if b carries its own
\* node id and it has collected a quorum of promises for b before: every
\* Propose comes from a replica that takes itself for the leader and carries
\* its highest_promised, a replica comes to take itself for the leader only
\* by a quorum of promises at highest_promised, and highest_promised does not
\* change while it does
ProposeOnlyWhenElected ==
    [][\A n \in Nodes :
          /\ \A d \in outbox' : (d.type = "Propose" /\ d.src = n) =>
                /\ d.id[2] = n
                /\ d.id = highest_promised'[n]
                /\ current_leader'[n] = n
          /\ (current_leader[n] # n /\ current_leader'[n] = n) =>
                /\ Len(promises'[n]) = quorum
                /\ \A k \in DOMAIN promises'[n] : promises'[n][k].id = highest_promised'[n]
          /\ (current_leader[n] = n /\ current_leader'[n] = n) =>
                highest_promised'[n] = highest_promised[n]]_vars

\* an elected replica has just broadcast a Propose at its own ballot
ElectedProposes ==
    \E d \in outbox :
        /\ d.type = "Propose"
        /\ d.id = highest_promised[d.src]
        /\ Len(promises[d.src]) >= quorum


\* the commands clients have submitted so far
Submitted == {Values[i] : i \in 1..requests}

\* C27 (Validity): every value a replica has marked chosen in a slot was
\* submitted by a client before; no chosen slot has an absent or invented value
Validity ==
    \A n \in Nodes : \A s \in 0..(Len(log[n]) - 1) :
        Chosen(n, s) => log[n][s + 1].value \in Submitted

\* a slot is chosen on its proposer by a quorum of Accepts and on another
\* replica by the Learn, beside a slot that has no value
ChosenBothWays ==
    \E n, p \in Nodes : \E s \in 0..(Len(log[p]) - 1) :
        /\ Chosen(n, s) /\ log[n][s + 1].acceptances >= quorum
        /\ Chosen(p, s) /\ log[p][s + 1].acceptances = 0
        /\ AbsentSlots(log[p]) # {}

====
